---- MODULE Spec2Model ----
(***************************************************************************)
(* The Python bindings of py-scrypt: src/src/scrypt2.c (Python 2) and      *)
(* src/src/scrypt3.c (Python 3).  Each binding exports encrypt, decrypt    *)
(* and hash; every call parses its arguments, allocates an output buffer,  *)
(* runs a primitive of the scrypt library with the interpreter lock        *)
(* released, builds the result, frees the buffer and returns.              *)
(*                                                                         *)
(* Machine integers wider than TLC's are kept as little-endian vectors of  *)
(* 8-bit limbs: a uint32_t is 4 limbs, a uint64_t is 8.  The hash          *)
(* arguments are taken as the typed values the "Kkk" format stores, on a   *)
(* build where unsigned long is 32 bits wide (the assumption the comment   *)
(* at scrypt3.c:138 states).                                               *)
(***************************************************************************)
EXTENDS Integers, Naturals, Sequences, FiniteSets, TLC

VARIABLES
    binding,      \* 2: scrypt2.c is the loaded module, 3: scrypt3.c
    ScryptError,  \* the module-level exception object, bound by module init
    frames,       \* the automatic variables of each running call
    heap,         \* the blocks of PyMem_Malloc
    curexc,       \* each thread's error indicator
    retval,       \* what each call returned to its caller
    pc,           \* each thread's position
    crashed,      \* the process died on an invalid memory access
    call,         \* history: the arguments and the environment's answers
    trace         \* history: the memory and primitive events of each call

vars == <<binding, ScryptError, frames, heap, curexc, retval, pc, crashed,
          call, trace>>

---------------------------------------------------------------------------
(* Bounds of the model                                                     *)

\* the longest plaintext handed to encrypt
MaxLen == 2

\* the number of threads calling into the module
NumThreads == 2

---------------------------------------------------------------------------
(* Fixed-width unsigned integers as little-endian vectors of 8-bit limbs   *)

RECURSIVE ToLimbs(_, _)
ToLimbs(n, k) ==
    IF k = 0 THEN <<>> ELSE <<n % 256>> \o ToLimbs(n \div 256, k - 1)

\* 2^e as a k-limb vector, e < 8*k
Pow2Limbs(e, k) ==
    [i \in 1..k |-> IF i = (e \div 8) + 1 THEN 2 ^ (e % 8) ELSE 0]

\* 2^(8k) - 1
MaxLimbs(k) ==
    [i \in 1..k |-> 255]

RECURSIVE LimbsLess(_, _, _)
\* a < b, compared from limb i (the most significant still to compare) down
LimbsLess(a, b, i) ==
    IF i = 0 THEN FALSE
    ELSE IF a[i] # b[i] THEN a[i] < b[i]
    ELSE LimbsLess(a, b, i - 1)

LimbsGE(a, b) ==
    ~LimbsLess(a, b, Len(a))

LimbsLE(a, b) ==
    ~LimbsLess(b, a, Len(a))

IsZeroLimbs(a) ==
    \A i \in 1..Len(a) : a[i] = 0

RECURSIVE ColumnSum(_, _, _, _)
\* the sum of a[i] * b[j-i+1] over the limbs i..Len(a) of column j
ColumnSum(a, b, j, i) ==
    IF i > Len(a) THEN 0
    ELSE (IF j - i + 1 \in 1..Len(b) THEN a[i] * b[j - i + 1] ELSE 0)
         + ColumnSum(a, b, j, i + 1)

RECURSIVE MulCarry(_, _, _, _)
MulCarry(a, b, j, c) ==
    IF j > Len(a) + Len(b) THEN <<>>
    ELSE LET s == ColumnSum(a, b, j, 1) + c
         IN  <<s % 256>> \o MulCarry(a, b, j + 1, s \div 256)

\* the full product of two limb vectors, Len(a)+Len(b) limbs: no overflow
MulLimbs(a, b) ==
    MulCarry(a, b, 1, 0)

\* C's unsigned multiplication at the operands' width: the product modulo 2^(8k)
MulWrap(a, b) ==
    SubSeq(MulLimbs(a, b), 1, Len(a))

RECURSIVE DecFrom(_, _)
\* a - 1 modulo 2^(8k), borrowing from limb i upwards
DecFrom(a, i) ==
    IF i > Len(a) THEN a
    ELSE IF a[i] > 0 THEN [a EXCEPT ![i] = a[i] - 1]
    ELSE DecFrom([a EXCEPT ![i] = 255], i + 1)

DecLimbs(a) ==
    DecFrom(a, 1)

RECURSIVE BitAnd(_, _)
BitAnd(x, y) ==
    IF x = 0 \/ y = 0 THEN 0
    ELSE (x % 2) * (y % 2) + 2 * BitAnd(x \div 2, y \div 2)

AndLimbs(a, b) ==
    [i \in 1..Len(a) |-> BitAnd(a[i], b[i])]

---------------------------------------------------------------------------
(* Module constants                                                        *)

g_error_codes ==
    << "success",
       "getrlimit or sysctl(hw.usermem) failed",
       "clock_getres or clock_gettime failed",
       "error computing derived key",
       "could not read salt from /dev/urandom",
       "error in OpenSSL",
       "malloc failed",
       "data is not a valid scrypt-encrypted block",
       "unrecognized scrypt format",
       "decrypting file would take too much memory",
       "decrypting file would take too long",
       "password is incorrect",
       "error writing output file",
       "error reading input file" >>

\* g_error_codes[errorcode] of the C source, whose arrays start at 0
\* (an index outside the array reads whatever lies beside it)
ErrorMessage(errorcode) ==
    IF errorcode \in 0..13 THEN g_error_codes[errorcode + 1]
    ELSE "<out of bounds>"

ParamErrorMessage ==
    "hash parameters are wrong (r*p should be < 2**30, and N should be a power of two > 1)"

HashErrorMessage ==
    "could not compute hash"

g_maxmem_default == 0

\* the double-valued budgets are kept in thousandths
g_maxmemfrac_default == 500

g_maxmemfrac_default_enc == 125

g_maxtime_default == 300000

g_maxtime_default_enc == 5000

\* the defaults of hash in scrypt2.c: N = 1024, r = 1, p = 1
hash_defaults_2 ==
    [N |-> ToLimbs(1024, 8), r |-> ToLimbs(1, 4), p |-> ToLimbs(1, 4)]

\* the defaults of hash in scrypt3.c: N = 1 << 14, r = 8, p = 1
hash_defaults_3 ==
    [N |-> Pow2Limbs(14, 8), r |-> ToLimbs(8, 4), p |-> ToLimbs(1, 4)]

hash_defaults(b) ==
    IF b = 2 THEN hash_defaults_2 ELSE hash_defaults_3

EncryptAllocSizeExact(inputlen) ==
    inputlen + 128

\* the size encrypt asks PyMem_Malloc for
EncryptAllocSize(inputlen) ==
    inputlen + 129

\* the number of bytes of the buffer encrypt hands to Py_BuildValue
EncryptResultLen(inputlen) ==
    inputlen + 128

\* the size decrypt asks PyMem_Malloc for
DecryptAllocSize(inputlen) ==
    inputlen

\* outbuflen of hash, also the size it asks PyMem_Malloc for
HashOutbufLen == 64

\* the condition of the if at scrypt3.c:151 / scrypt2.c:176, on uint32_t r, p
\* and uint64_t N:  r * p >= (1 << 30) || N <= 1 || (N & (N-1)) != 0
hash_guard(N, r, p) ==
    \/ LimbsGE(MulWrap(r, p), Pow2Limbs(30, 4))
    \/ LimbsLE(N, ToLimbs(1, 8))
    \/ ~IsZeroLimbs(AndLimbs(N, DecLimbs(N)))

---------------------------------------------------------------------------
(* Python objects and Py_BuildValue                                        *)

\* the byte value of memory that was allocated and never written
Uninit == -1

NULL == 0

PyBytes(data) ==
    [type |-> "bytes", data |-> data]

PyStr(codepoints) ==
    [type |-> "str", data |-> codepoints]

PyNone ==
    [type |-> "NoneType", data |-> <<>>]

\* no object: the NULL a failing call returns
NoObject ==
    [type |-> "NULL", data |-> <<>>]

NoError ==
    [exc |-> "none", args |-> <<>>]

\* PyErr_Format(exc, "%s", msg): the error indicator holds exc(msg)
PyErr_Format(exc, msg) ==
    [exc |-> exc, args |-> <<msg>>]

\* PyErr_SetNone(exc): the error indicator holds exc with no value
PyErr_SetNone(exc) ==
    [exc |-> exc, args |-> <<>>]

\* the length of the UTF-8 sequence a lead byte announces, 0 for no lead byte
Utf8SeqLen(c) ==
    IF c < 128 THEN 1
    ELSE IF c \in 194..223 THEN 2
    ELSE IF c \in 224..239 THEN 3
    ELSE IF c \in 240..244 THEN 4
    ELSE 0

\* the values the second byte of a sequence led by c may take
Utf8Second(c) ==
    IF c = 224 THEN 160..191
    ELSE IF c = 237 THEN 128..159
    ELSE IF c = 240 THEN 144..191
    ELSE IF c = 244 THEN 128..143
    ELSE 128..191

Utf8WellFormedAt(b, i, n) ==
    /\ n > 0
    /\ i + n - 1 <= Len(b)
    /\ n >= 2 => b[i + 1] \in Utf8Second(b[i])
    /\ \A k \in 2..(n - 1) : b[i + k] \in 128..191

Utf8CodePoint(b, i, n) ==
    IF n = 1 THEN b[i]
    ELSE IF n = 2 THEN (b[i] - 192) * 64 + (b[i + 1] - 128)
    ELSE IF n = 3 THEN (b[i] - 224) * 4096 + (b[i + 1] - 128) * 64
                       + (b[i + 2] - 128)
    ELSE (b[i] - 240) * 262144 + (b[i + 1] - 128) * 4096
         + (b[i + 2] - 128) * 64 + (b[i + 3] - 128)

\* a continuation byte: never the first byte of a sequence
Utf8IsContinuation(c) ==
    c \in 128..191

\* the positions where a sequence starts in well-formed UTF-8
Utf8Starts(b) ==
    {i \in 1..Len(b) : ~Utf8IsContinuation(b[i])}

\* position i lies inside the sequence that a lead byte before it announces
Utf8Covered(b, i) ==
    \E k \in 1..3 :
        /\ i - k >= 1
        /\ Utf8SeqLen(b[i - k]) > k
        /\ \A j \in (i - k + 1)..(i - 1) : Utf8IsContinuation(b[j])

\* PyUnicode_DecodeUTF8 with strict errors: every sequence well-formed and
\* every continuation byte inside one; the code points in their order
Utf8Decode(b) ==
    LET starts == Utf8Starts(b)
        ok == /\ \A i \in starts : Utf8WellFormedAt(b, i, Utf8SeqLen(b[i]))
              /\ \A i \in (1..Len(b)) \ starts : Utf8Covered(b, i)
        nth(j) == CHOOSE i \in starts :
                      Cardinality({x \in starts : x <= i}) = j
    IN  [ok  |-> ok,
         cps |-> IF ok
                 THEN [j \in 1..Cardinality(starts) |->
                          Utf8CodePoint(b, nth(j), Utf8SeqLen(b[nth(j)]))]
                 ELSE <<>>]

Utf8EncodeOne(cp) ==
    IF cp < 128 THEN <<cp>>
    ELSE IF cp < 2048 THEN <<192 + (cp \div 64), 128 + (cp % 64)>>
    ELSE IF cp < 65536
         THEN <<224 + (cp \div 4096), 128 + ((cp \div 64) % 64),
                128 + (cp % 64)>>
    ELSE <<240 + (cp \div 262144), 128 + ((cp \div 4096) % 64),
           128 + ((cp \div 64) % 64), 128 + (cp % 64)>>

RECURSIVE Utf8Encode(_)
Utf8Encode(cps) ==
    IF cps = <<>> THEN <<>>
    ELSE Utf8EncodeOne(Head(cps)) \o Utf8Encode(Tail(cps))

\* the bytes an object stands for: a bytes object's own, a str's UTF-8 encoding
ContentBytes(obj) ==
    IF obj.type = "str" THEN Utf8Encode(obj.data) ELSE obj.data

\* Py_BuildValue("y#", ptr, len) of Python 3: a bytes object
BuildValue_y(ptr, bytes) ==
    [obj |-> PyBytes(bytes), err |-> NoError]

\* Py_BuildValue("z#", ptr, len) of Python 2: None for a NULL pointer, else a
\* str, which is Python 2's byte string (bytes is str there)
BuildValue_z(ptr, bytes) ==
    [obj |-> IF ptr = NULL THEN PyNone ELSE PyBytes(bytes), err |-> NoError]

\* Py_BuildValue("s#", ptr, len) of Python 3: None for a NULL pointer, else the
\* str the bytes decode to as UTF-8, and UnicodeDecodeError when they do not
BuildValue_s(ptr, bytes) ==
    IF ptr = NULL THEN [obj |-> PyNone, err |-> NoError]
    ELSE LET d == Utf8Decode(bytes)
         IN  IF d.ok THEN [obj |-> PyStr(d.cps), err |-> NoError]
             ELSE [obj |-> NoObject,
                   err |-> PyErr_Format("UnicodeDecodeError",
                                        "'utf-8' codec can't decode")]

\* the format of the Py_BuildValue call of encrypt, decrypt and hash
encrypt_format(b) ==
    IF b = 2 THEN "z#" ELSE "y#"

decrypt_format(b) ==
    IF b = 2 THEN "z#" ELSE "s#"

hash_format(b) ==
    IF b = 2 THEN "z#" ELSE "y#"

Py_BuildValue(format, ptr, bytes) ==
    IF format = "y#" THEN BuildValue_y(ptr, bytes)
    ELSE IF format = "z#" THEN BuildValue_z(ptr, bytes)
    ELSE BuildValue_s(ptr, bytes)

---------------------------------------------------------------------------
(* The heap of PyMem_Malloc                                                *)

Threads == 1..NumThreads

\* one address for each block that can be live at once
Addrs == 1..NumThreads

UnusedBlock ==
    [state |-> "free", cap |-> 0, data |-> <<>>]

EmptyHeap ==
    [a \in Addrs |-> UnusedBlock]

Event(ev, ptr, size, ok, args) ==
    [ev |-> ev, ptr |-> ptr, size |-> size, ok |-> ok, args |-> args]

\* PyMem_Malloc(size): NULL when the allocator has no memory (ok = FALSE), else
\* a block of size bytes that is not live, its contents indeterminate
PyMem_Malloc(h, size, ok) ==
    LET free == {a \in Addrs : h[a].state # "live"}
    IN  IF ~ok \/ free = {} THEN [ptr |-> NULL, h |-> h]
        ELSE LET a == CHOOSE x \in free : \A y \in free : x <= y
             IN  [ptr |-> a,
                  h   |-> [h EXCEPT ![a] = [state |-> "live", cap |-> size,
                                            data |-> [i \in 1..size |-> Uninit]]]]

\* PyMem_Free(ptr): nothing for NULL; releases a live block, whose contents
\* are gone with it; ok = FALSE records the release of a block that is not
\* live (a double or invalid free)
PyMem_Free(h, ptr) ==
    IF ptr = NULL THEN [h |-> h, ok |-> TRUE]
    ELSE IF h[ptr].state = "live"
         THEN [h |-> [h EXCEPT ![ptr] = UnusedBlock], ok |-> TRUE]
    ELSE [h |-> h, ok |-> FALSE]

\* a store of bytes at ptr: storing nothing touches no memory; a store through
\* NULL, into a block that is not live or past its end is an invalid access
WriteBytes(h, ptr, bytes) ==
    IF bytes = <<>> THEN [h |-> h, fault |-> FALSE]
    ELSE IF ptr = NULL THEN [h |-> h, fault |-> TRUE]
    ELSE IF h[ptr].state # "live" \/ Len(bytes) > h[ptr].cap
         THEN [h |-> h, fault |-> TRUE]
    ELSE [h |-> [h EXCEPT ![ptr].data =
                    [i \in 1..h[ptr].cap |->
                        IF i <= Len(bytes) THEN bytes[i] ELSE h[ptr].data[i]]],
          fault |-> FALSE]

\* a load of n bytes from ptr.  Loading past the end of the block is undefined
\* and bytes never written are indeterminate: the process dies (garbage = -1)
\* or the load yields some byte, garbage, in their place
ReadBytes(h, ptr, n, garbage) ==
    IF n = 0 THEN [bytes |-> <<>>, fault |-> FALSE]
    ELSE IF ptr = NULL THEN [bytes |-> <<>>, fault |-> TRUE]
    ELSE LET raw == [i \in 1..n |-> IF i <= h[ptr].cap THEN h[ptr].data[i]
                                    ELSE Uninit]
         IN  IF \A i \in 1..n : raw[i] # Uninit
             THEN [bytes |-> raw, fault |-> FALSE]
             ELSE IF garbage < 0 THEN [bytes |-> <<>>, fault |-> TRUE]
             ELSE [bytes |-> [i \in 1..n |-> IF raw[i] = Uninit THEN garbage
                                             ELSE raw[i]],
                   fault |-> FALSE]

---------------------------------------------------------------------------
(* The primitive library: scryptenc_buf, scryptdec_buf, crypto_scrypt.     *)
(* Its code is not part of the two binding files; it is modelled from the  *)
(* contract the specification gives it.                                    *)

RECURSIVE SumBytes(_)
SumBytes(b) ==
    IF b = <<>> THEN 0 ELSE Head(b) + SumBytes(Tail(b))

\* a one-byte stand-in for the key derived from a password
KeyTag(passwd) ==
    (SumBytes(passwd) + 7 * Len(passwd) + 1) % 256

Magic ==
    <<115, 99, 114, 121, 112, 116, 0>>

ContainerHeader(passwd) ==
    LET k == KeyTag(passwd)
    IN  Magic \o [i \in 1..89 |-> k]

Cipher(data, passwd) ==
    LET k == KeyTag(passwd)
    IN  [i \in 1..Len(data) |-> (data[i] + k) % 256]

Decipher(data, passwd) ==
    LET k == KeyTag(passwd)
    IN  [i \in 1..Len(data) |-> (data[i] + 256 - k) % 256]

ContainerMac(body, passwd) ==
    LET k == SumBytes(body) + KeyTag(passwd)
    IN  [i \in 1..32 |-> (k + i) % 256]

\* the container encryptBuf produces: 96 bytes of header, the body, 32 of MAC
Container(plain, passwd) ==
    LET body == Cipher(plain, passwd)
    IN  ContainerHeader(passwd) \o body \o ContainerMac(body, passwd)

\* what decryptBuf finds wrong with a container: 0 nothing, 7 malformed,
\* 8 unrecognized format, 11 password incorrect
ContainerFault(inbuf, passwd) ==
    IF Len(inbuf) < 7 \/ SubSeq(inbuf, 1, 6) # SubSeq(Magic, 1, 6) THEN 7
    ELSE IF inbuf[7] # 0 THEN 8
    ELSE IF Len(inbuf) < 128 THEN 7
    ELSE IF SubSeq(inbuf, 1, 96) # ContainerHeader(passwd) THEN 11
    ELSE IF SubSeq(inbuf, Len(inbuf) - 31, Len(inbuf))
            # ContainerMac(SubSeq(inbuf, 97, Len(inbuf) - 32), passwd) THEN 7
    ELSE 0

\* encryptBuf: fails with the code rc the environment forces (1..13), else
\* stores the container at outbuf
scryptenc_buf(h, inbuf, outbuf, passwd, rc) ==
    IF rc # 0 THEN [rc |-> rc, h |-> h, fault |-> FALSE]
    ELSE LET w == WriteBytes(h, outbuf, Container(inbuf, passwd))
         IN  [rc |-> 0, h |-> w.h, fault |-> w.fault]

\* decryptBuf: fails with the container's fault or the code rc the environment
\* forces, else stores the plaintext at outbuf and reports its length; over > 0
\* is a primitive that reports more than it was given room for
scryptdec_buf(h, inbuf, outbuf, passwd, rc, over) ==
    LET fault == ContainerFault(inbuf, passwd)
        code  == IF fault \in {7, 8} THEN fault
                 ELSE IF rc # 0 THEN rc
                 ELSE fault
    IN  IF code # 0
        THEN [rc |-> code, h |-> h, outlen |-> Uninit, fault |-> FALSE]
        ELSE LET plain == Decipher(SubSeq(inbuf, 97, Len(inbuf) - 32), passwd)
                 w     == WriteBytes(h, outbuf, plain)
             IN  [rc |-> 0, h |-> w.h,
                  outlen |-> IF over > 0 THEN Len(inbuf) + over
                             ELSE Len(plain),
                  fault |-> w.fault]

DerivedKey(passwd, salt, N, r, p, buflen) ==
    LET k == KeyTag(passwd) + 3 * KeyTag(salt) + SumBytes(N)
                 + 5 * SumBytes(r) + 11 * SumBytes(p)
    IN  [i \in 1..buflen |-> (k + i) % 256]

\* derive: fails with -1 when the environment forces it, else stores buflen
\* bytes of derived key at buf
crypto_scrypt(h, passwd, salt, N, r, p, buf, buflen, rc) ==
    IF rc # 0 THEN [rc |-> rc, h |-> h, fault |-> FALSE]
    ELSE LET w == WriteBytes(h, buf, DerivedKey(passwd, salt, N, r, p, buflen))
         IN  [rc |-> 0, h |-> w.h, fault |-> w.fault]

---------------------------------------------------------------------------
(* One call: its automatic variables and its three sequential parts.       *)
(* A part is a function of the call's machine state m:                     *)
(*   pc    where the call stands        f     its automatic variables      *)
(*   h     the heap                     exc   the thread's error indicator *)
(*   ret   the returned object          ev    the events so far            *)
(*   crash the part made an invalid memory access                          *)

\* the automatic variables of a call before any is assigned
NoFrame ==
    [op |-> "none", input |-> <<>>, inputlen |-> 0, password |-> <<>>,
     salt |-> <<>>, maxtime |-> 0, maxmem |-> 0, maxmemfrac |-> 0,
     N |-> ToLimbs(0, 8), r |-> ToLimbs(0, 4), p |-> ToLimbs(0, 4),
     outbuf |-> NULL, outbuflen |-> 0, errorcode |-> Uninit,
     outputlen |-> Uninit, paramerror |-> Uninit, hasherror |-> Uninit]

\* the arguments of a call; <<>> is a keyword argument the caller left out
NoArgs ==
    [argsOK |-> TRUE, input |-> <<>>, password |-> <<>>, salt |-> <<>>,
     maxtime |-> <<>>, maxmem |-> <<>>, maxmemfrac |-> <<>>,
     N |-> <<>>, r |-> <<>>, p |-> <<>>]

\* an optional argument: PyArg_ParseTupleAndKeywords leaves the variable of an
\* argument that was not passed at its initial value
Optional(given, initial) ==
    IF given = <<>> THEN initial ELSE given[1]

\* PyArg_ParseTupleAndKeywords failed: it has raised TypeError
ParseError ==
    PyErr_Format("TypeError", "argument error")

\* a later raise replaces what the error indicator held
Raise(indicator, error) ==
    error

\* the PyMem_Free every path through the end of a call reaches
ReleaseOutbufOnSuccess(h, ptr, failed) ==
    IF failed THEN [h |-> h, ok |-> TRUE, freed |-> FALSE]
    ELSE [h |-> PyMem_Free(h, ptr).h, ok |-> PyMem_Free(h, ptr).ok,
          freed |-> TRUE]

ReleaseOutbuf(h, ptr, failed) ==
    [h |-> PyMem_Free(h, ptr).h, ok |-> PyMem_Free(h, ptr).ok, freed |-> TRUE]

FreeEvents(rel, ptr) ==
    IF rel.freed THEN <<Event("free", ptr, 0, rel.ok, <<>>)>> ELSE <<>>

\* ---- encrypt ----

\* scrypt_encrypt up to Py_BEGIN_ALLOW_THREADS: parse, then allocate
encrypt_begin(m, a, memOK) ==
    IF ~a.argsOK
    THEN [m EXCEPT !.pc = "done", !.exc = ParseError, !.ret = NoObject]
    ELSE LET size == EncryptAllocSize(Len(a.input))
             al   == PyMem_Malloc(m.h, size, memOK)
         IN  [m EXCEPT
                !.pc = "enc_primitive",
                !.f  = [NoFrame EXCEPT
                          !.op = "encrypt",
                          !.input = a.input,
                          !.inputlen = Len(a.input),
                          !.password = a.password,
                          !.maxmem = Optional(a.maxmem, g_maxmem_default),
                          !.maxmemfrac =
                              Optional(a.maxmemfrac, g_maxmemfrac_default_enc),
                          !.maxtime =
                              Optional(a.maxtime, g_maxtime_default_enc),
                          !.outbuf = al.ptr],
                !.h  = al.h,
                !.ev = Append(@, Event("malloc", al.ptr, size,
                                       al.ptr # NULL, <<>>))]

\* the call of scryptenc_buf, made with the interpreter lock released
encrypt_primitive(m, rc) ==
    LET res == scryptenc_buf(m.h, SubSeq(m.f.input, 1, m.f.inputlen),
                             m.f.outbuf, m.f.password, rc)
    IN  [m EXCEPT
           !.pc = IF res.fault THEN "crashed" ELSE "enc_finish",
           !.crash = res.fault,
           !.h = res.h,
           !.f.errorcode = res.rc,
           !.ev = Append(@, Event("call", m.f.outbuf, 0, res.rc = 0,
                                  <<m.f.maxmem, m.f.maxmemfrac, m.f.maxtime>>))]

\* the error encrypt leaves: PyErr_Format with the message, then PyErr_SetNone
encrypt_error(E, errorcode) ==
    Raise(Raise(NoError, PyErr_Format(E, ErrorMessage(errorcode))),
          PyErr_SetNone(E))

\* scrypt_encrypt after Py_END_ALLOW_THREADS: build the result, free, return
encrypt_finish(m, b, E, beyond) ==
    LET failed == m.f.errorcode # 0
        rd  == ReadBytes(m.h, m.f.outbuf, EncryptResultLen(m.f.inputlen),
                         beyond)
        bv  == Py_BuildValue(encrypt_format(b), m.f.outbuf, rd.bytes)
        rel == ReleaseOutbuf(m.h, m.f.outbuf, failed)
    IN  IF ~failed /\ rd.fault
        THEN [m EXCEPT !.pc = "crashed", !.crash = TRUE]
        ELSE [m EXCEPT
                !.pc  = "done",
                !.exc = IF failed THEN encrypt_error(E, m.f.errorcode)
                        ELSE bv.err,
                !.ret = IF failed THEN NoObject ELSE bv.obj,
                !.h   = rel.h,
                !.ev  = @ \o FreeEvents(rel, m.f.outbuf),
                !.f   = NoFrame]

\* ---- decrypt ----

decrypt_begin(m, a, memOK) ==
    IF ~a.argsOK
    THEN [m EXCEPT !.pc = "done", !.exc = ParseError, !.ret = NoObject]
    ELSE LET size == DecryptAllocSize(Len(a.input))
             al   == PyMem_Malloc(m.h, size, memOK)
         IN  [m EXCEPT
                !.pc = "dec_primitive",
                !.f  = [NoFrame EXCEPT
                          !.op = "decrypt",
                          !.input = a.input,
                          !.inputlen = Len(a.input),
                          !.password = a.password,
                          !.maxmem = Optional(a.maxmem, g_maxmem_default),
                          !.maxmemfrac =
                              Optional(a.maxmemfrac, g_maxmemfrac_default),
                          !.maxtime = Optional(a.maxtime, g_maxtime_default),
                          !.outbuf = al.ptr],
                !.h  = al.h,
                !.ev = Append(@, Event("malloc", al.ptr, size,
                                       al.ptr # NULL, <<>>))]

\* the call of scryptdec_buf, made with the interpreter lock released
decrypt_primitive(m, rc, over) ==
    LET res == scryptdec_buf(m.h, SubSeq(m.f.input, 1, m.f.inputlen),
                             m.f.outbuf, m.f.password, rc, over)
    IN  [m EXCEPT
           !.pc = IF res.fault THEN "crashed" ELSE "dec_finish",
           !.crash = res.fault,
           !.h = res.h,
           !.f.errorcode = res.rc,
           !.f.outputlen = res.outlen,
           !.ev = Append(@, Event("call", m.f.outbuf, 0, res.rc = 0,
                                  <<m.f.maxmem, m.f.maxmemfrac, m.f.maxtime>>))]

decrypt_error(E, errorcode) ==
    Raise(NoError, PyErr_Format(E, ErrorMessage(errorcode)))

decrypt_finish(m, b, E, beyond) ==
    LET failed == m.f.errorcode # 0
        rd  == ReadBytes(m.h, m.f.outbuf, m.f.outputlen, beyond)
        bv  == Py_BuildValue(decrypt_format(b), m.f.outbuf, rd.bytes)
        rel == ReleaseOutbuf(m.h, m.f.outbuf, failed)
    IN  IF ~failed /\ rd.fault
        THEN [m EXCEPT !.pc = "crashed", !.crash = TRUE]
        ELSE [m EXCEPT
                !.pc  = "done",
                !.exc = IF failed THEN decrypt_error(E, m.f.errorcode)
                        ELSE bv.err,
                !.ret = IF failed THEN NoObject ELSE bv.obj,
                !.h   = rel.h,
                !.ev  = @ \o FreeEvents(rel, m.f.outbuf),
                !.f   = NoFrame]

\* ---- hash ----

hash_begin(m, a, memOK, b) ==
    IF ~a.argsOK
    THEN [m EXCEPT !.pc = "done", !.exc = ParseError, !.ret = NoObject]
    ELSE LET al == PyMem_Malloc(m.h, HashOutbufLen, memOK)
         IN  [m EXCEPT
                !.pc = "hash_primitive",
                !.f  = [NoFrame EXCEPT
                          !.op = "hash",
                          !.password = a.password,
                          !.salt = a.salt,
                          !.N = Optional(a.N, hash_defaults(b).N),
                          !.r = Optional(a.r, hash_defaults(b).r),
                          !.p = Optional(a.p, hash_defaults(b).p),
                          !.outbuf = al.ptr,
                          !.outbuflen = HashOutbufLen],
                !.h  = al.h,
                !.ev = Append(@, Event("malloc", al.ptr, HashOutbufLen,
                                       al.ptr # NULL, <<>>))]

\* the else branch of the guard: crypto_scrypt runs when the guard accepted
DerivationRunsAlways(rejected) ==
    TRUE

DerivationRuns(rejected) ==
    ~rejected

\* the block between Py_BEGIN_ALLOW_THREADS and Py_END_ALLOW_THREADS of hash:
\* the guard, and crypto_scrypt when it accepts
hash_primitive(m, rc) ==
    LET rejected == hash_guard(m.f.N, m.f.r, m.f.p)
        guarded  == Event("guard", NULL, 0, ~rejected, <<>>)
        res == crypto_scrypt(m.h, m.f.password, m.f.salt, m.f.N, m.f.r, m.f.p,
                             m.f.outbuf, m.f.outbuflen, rc)
    IN  IF ~DerivationRuns(rejected)
        THEN [m EXCEPT !.pc = "hash_finish",
                       !.f.paramerror = -1,
                       !.ev = Append(@, guarded)]
        ELSE [m EXCEPT
                !.pc = IF res.fault THEN "crashed" ELSE "hash_finish",
                !.crash = res.fault,
                !.h = res.h,
                !.f.paramerror = IF rejected THEN -1 ELSE 0,
                !.f.hasherror = res.rc,
                !.ev = @ \o <<guarded,
                              Event("call", m.f.outbuf, m.f.outbuflen,
                                    res.rc = 0, <<m.f.N, m.f.r, m.f.p>>)>>]

hash_error(E, paramerror) ==
    IF paramerror # 0 THEN Raise(NoError, PyErr_Format(E, ParamErrorMessage))
    ELSE Raise(NoError, PyErr_Format(E, HashErrorMessage))

hash_finish(m, b, E, beyond) ==
    LET failed == m.f.paramerror # 0 \/ m.f.hasherror # 0
        rd  == ReadBytes(m.h, m.f.outbuf, m.f.outbuflen, beyond)
        bv  == Py_BuildValue(hash_format(b), m.f.outbuf, rd.bytes)
        rel == ReleaseOutbuf(m.h, m.f.outbuf, failed)
    IN  IF ~failed /\ rd.fault
        THEN [m EXCEPT !.pc = "crashed", !.crash = TRUE]
        ELSE [m EXCEPT
                !.pc  = "done",
                !.exc = IF failed THEN hash_error(E, m.f.paramerror)
                        ELSE bv.err,
                !.ret = IF failed THEN NoObject ELSE bv.obj,
                !.h   = rel.h,
                !.ev  = @ \o FreeEvents(rel, m.f.outbuf),
                !.f   = NoFrame]

---------------------------------------------------------------------------
(* The state machine                                                       *)

\* the automatic variables of thread t's call live in t's own stack frame
StaticFrame(t) ==
    1

Frame(t) ==
    t

NoCall ==
    [op |-> "none", args |-> NoArgs, memOK |-> TRUE, rc |-> 0, over |-> 0,
     beyond |-> -1]

IdleMachine ==
    [pc |-> "idle", f |-> NoFrame, h |-> EmptyHeap, exc |-> NoError,
     ret |-> NoObject, ev |-> <<>>, crash |-> FALSE]

Init ==
    /\ binding \in {2, 3}
    /\ ScryptError = "unset"
    /\ frames = [t \in Threads |-> NoFrame]
    /\ heap = EmptyHeap
    /\ curexc = [t \in Threads |-> NoError]
    /\ retval = [t \in Threads |-> NoObject]
    /\ pc = [t \in Threads |-> "idle"]
    /\ crashed = FALSE
    /\ call = [t \in Threads |-> NoCall]
    /\ trace = [t \in Threads |-> <<>>]

\* initscrypt / PyInit_scrypt: the one assignment of ScryptError
initscrypt ==
    /\ ScryptError = "unset"
    /\ ScryptError' = "scrypt.error"
    /\ UNCHANGED <<binding, frames, heap, curexc, retval, pc, crashed, call,
                   trace>>

\* what thread t's call sees
Local(t) ==
    [pc |-> pc[t], f |-> frames[Frame(t)], h |-> heap, exc |-> curexc[t],
     ret |-> retval[t], ev |-> trace[t], crash |-> FALSE]

\* thread t's call has moved to m
Commit(t, m, c) ==
    /\ frames' = [frames EXCEPT ![Frame(t)] = m.f]
    /\ heap' = m.h
    /\ curexc' = [curexc EXCEPT ![t] = m.exc]
    /\ retval' = [retval EXCEPT ![t] = m.ret]
    /\ pc' = [pc EXCEPT ![t] = m.pc]
    /\ crashed' = m.crash
    /\ call' = [call EXCEPT ![t] = c]
    /\ trace' = [trace EXCEPT ![t] = m.ev]
    /\ UNCHANGED <<binding, ScryptError>>

Running ==
    ScryptError # "unset" /\ ~crashed

\* the byte a load past the end of a block may yield, -1: the process dies
Beyond ==
    {-1, 0, 255}

scrypt_encrypt(t, Args, Mems) ==
    /\ Running /\ pc[t] = "idle"
    /\ \E a \in Args, memOK \in Mems :
          Commit(t, encrypt_begin(Local(t), a, memOK),
                 [NoCall EXCEPT !.op = "encrypt", !.args = a, !.memOK = memOK])

scrypt_encrypt_primitive(t, Codes) ==
    /\ Running /\ pc[t] = "enc_primitive"
    /\ \E rc \in Codes :
          Commit(t, encrypt_primitive(Local(t), rc), [call[t] EXCEPT !.rc = rc])

scrypt_encrypt_return(t) ==
    /\ Running /\ pc[t] = "enc_finish"
    /\ Commit(t, encrypt_finish(Local(t), binding, ScryptError, -1), call[t])

scrypt_decrypt(t, Args, Mems) ==
    /\ Running /\ pc[t] = "idle"
    /\ \E a \in Args, memOK \in Mems :
          Commit(t, decrypt_begin(Local(t), a, memOK),
                 [NoCall EXCEPT !.op = "decrypt", !.args = a, !.memOK = memOK])

scrypt_decrypt_primitive(t, Codes, Overs) ==
    /\ Running /\ pc[t] = "dec_primitive"
    /\ \E rc \in Codes, over \in Overs :
          LET m == decrypt_primitive(Local(t), rc, over)
          IN  Commit(t, m, [call[t] EXCEPT
                              !.rc = m.f.errorcode,
                              !.over = IF m.f.errorcode = 0 THEN over ELSE 0])

scrypt_decrypt_return(t) ==
    /\ Running /\ pc[t] = "dec_finish"
    /\ \E beyond \in (IF call[t].over > 0 THEN Beyond ELSE {-1}) :
          Commit(t, decrypt_finish(Local(t), binding, ScryptError, beyond),
                 [call[t] EXCEPT !.beyond = beyond])

scrypt_hash(t, Args, Mems) ==
    /\ Running /\ pc[t] = "idle"
    /\ \E a \in Args, memOK \in Mems :
          Commit(t, hash_begin(Local(t), a, memOK, binding),
                 [NoCall EXCEPT !.op = "hash", !.args = a, !.memOK = memOK])

scrypt_hash_primitive(t, Codes) ==
    /\ Running /\ pc[t] = "hash_primitive"
    /\ \E rc \in Codes :
          LET m == hash_primitive(Local(t), rc)
          IN  Commit(t, m, [call[t] EXCEPT
                              !.rc = IF m.f.paramerror = 0 THEN rc ELSE 0])

scrypt_hash_return(t) ==
    /\ Running /\ pc[t] = "hash_finish"
    /\ Commit(t, hash_finish(Local(t), binding, ScryptError, -1), call[t])

---------------------------------------------------------------------------
(* The inputs                                                              *)

RECURSIVE SeqsUpTo(_, _)
\* the sequences over S of length at most n
SeqsUpTo(S, n) ==
    IF n = 0 THEN {<<>>}
    ELSE LET shorter == SeqsUpTo(S, n - 1)
         IN  shorter \cup {Append(q, x) : q \in shorter, x \in S}

\* plaintexts: text (65 is "A") and bytes that are not UTF-8 (255)
Plaintexts ==
    SeqsUpTo({65, 255}, MaxLen)

Passwords ==
    {<<112>>, <<113>>}

\* the codes a primitive of the encryption library may return
PrimitiveCodes ==
    0..13

\* the codes crypto_scrypt may return
DerivationCodes ==
    {0, -1}

BadArgs ==
    [NoArgs EXCEPT !.argsOK = FALSE]

Budgeted(a) ==
    {a, [a EXCEPT !.maxtime = <<1000>>, !.maxmem = <<1024>>,
                  !.maxmemfrac = <<250>>]}

EncryptArgs ==
    {BadArgs} \cup
    UNION {Budgeted([NoArgs EXCEPT !.input = x, !.password = k]) :
             x \in Plaintexts, k \in Passwords}

\* ciphertexts: containers made by encrypt, and blocks that are none
Ciphertexts ==
    {Container(x, k) : x \in Plaintexts, k \in Passwords}
        \cup {<<>>, <<65>>}

DecryptArgs ==
    {BadArgs} \cup
    UNION {Budgeted([NoArgs EXCEPT !.input = c, !.password = k]) :
             c \in Ciphertexts, k \in Passwords}

\* hash parameters: left out, accepted, and each way of being rejected
HashArgs ==
    {BadArgs} \cup
    {[NoArgs EXCEPT !.password = k, !.salt = <<115>>, !.N = n, !.r = r,
                    !.p = r] :
        k \in Passwords,
        n \in {<<>>, <<ToLimbs(16, 8)>>, <<ToLimbs(3, 8)>>},
        r \in {<<>>, <<ToLimbs(2, 4)>>, <<Pow2Limbs(15, 4)>>,
               <<Pow2Limbs(20, 4)>>}}

---------------------------------------------------------------------------
(* Spec: one thread calls encrypt, decrypt or hash, with every input and   *)
(* every answer of the environment                                         *)

Next ==
    \/ initscrypt
    \/ scrypt_encrypt(1, EncryptArgs, BOOLEAN)
    \/ scrypt_encrypt_primitive(1, PrimitiveCodes)
    \/ scrypt_encrypt_return(1)
    \/ scrypt_decrypt(1, DecryptArgs, BOOLEAN)
    \/ scrypt_decrypt_primitive(1, PrimitiveCodes, {0, 1})
    \/ scrypt_decrypt_return(1)
    \/ scrypt_hash(1, HashArgs, BOOLEAN)
    \/ scrypt_hash_primitive(1, DerivationCodes)
    \/ scrypt_hash_return(1)

Spec ==
    Init /\ [][Next]_vars

---------------------------------------------------------------------------
(* Properties                                                              *)

Done(t) ==
    pc[t] = "done"

\* the positions of thread t's events of one kind
EventsAt(t, kind) ==
    {i \in 1..Len(trace[t]) : trace[t][i].ev = kind}

Parsed(t) ==
    call[t].op # "none" /\ call[t].args.argsOK

\* the call returned an object and raised nothing
Returned(t) ==
    Done(t) /\ retval[t] # NoObject /\ curexc[t] = NoError

\* the call returned no object and raised the module's error
Raised(t) ==
    Done(t) /\ retval[t] = NoObject /\ curexc[t].exc = "scrypt.error"

Taxonomy ==
    {g_error_codes[i] : i \in 2..14} \cup {ParamErrorMessage, HashErrorMessage}

\* the primitive of an encrypt or decrypt call failed with code c
PrimitiveFailed(t, c) ==
    /\ call[t].op \in {"encrypt", "decrypt"}
    /\ EventsAt(t, "call") # {}
    /\ call[t].rc = c

\* C2: every call of encrypt, decrypt or hash whose arguments parse ends
\* either returning a byte sequence or raising one error that carries one
\* message of the fixed taxonomy; when the primitive failed with code c in
\* 1..13 the message is that of code c, for encrypt as for decrypt.
C2_OneErrorWithMessage ==
    \A t \in Threads :
        (Done(t) /\ Parsed(t)) =>
            /\ \/ Returned(t) /\ retval[t].type = "bytes"
               \/ /\ Raised(t)
                  /\ Len(curexc[t].args) = 1
                  /\ curexc[t].args[1] \in Taxonomy
            /\ \A c \in 1..13 :
                  PrimitiveFailed(t, c) =>
                      curexc[t] = PyErr_Format("scrypt.error", ErrorMessage(c))

\* the hash call of thread t left N, r and p out
HashWithDefaults(t) ==
    /\ call[t].op = "hash" /\ call[t].args.argsOK
    /\ call[t].args.N = <<>> /\ call[t].args.r = <<>> /\ call[t].args.p = <<>>

\* C3: in both bindings hash called with only password and salt hands the
\* primitive N = 16384, r = 8, p = 1, the values hash(pw, salt, N=16384, r=8,
\* p=1) hands it.
C3_HashDefaults ==
    \A t \in Threads :
        HashWithDefaults(t) =>
            \A i \in EventsAt(t, "call") :
                trace[t][i].args = <<ToLimbs(16384, 8), ToLimbs(8, 4),
                                     ToLimbs(1, 4)>>

\* the encrypt call of thread t returned its result
EncryptSucceeded(t) ==
    call[t].op = "encrypt" /\ Returned(t)

\* C5 as claimed: encrypt allocates its output buffer with capacity exactly
\* len(plaintext)+128 and a successful call returns the whole buffer.
C5_CapacityIsResultLength ==
    \A t \in Threads :
        call[t].op = "encrypt" =>
            \A i \in EventsAt(t, "malloc") :
                /\ trace[t][i].size = Len(call[t].args.input) + 128
                /\ EncryptSucceeded(t) =>
                      Len(retval[t].data) = trace[t][i].size

\* C5 as the code has it: encrypt asks for a buffer of len(plaintext)+129
\* bytes, and a successful call returns exactly len(plaintext)+128 bytes, one
\* less than the buffer holds: the container the primitive stored in it.
C5_CapacityOneMoreThanResult ==
    \A t \in Threads :
        call[t].op = "encrypt" =>
            \A i \in EventsAt(t, "malloc") :
                /\ trace[t][i].size = Len(call[t].args.input) + 129
                /\ EncryptSucceeded(t) =>
                      /\ trace[t][i].ptr # NULL
                      /\ Len(retval[t].data) = Len(call[t].args.input) + 128
                      /\ Len(retval[t].data) = trace[t][i].size - 1
                      /\ retval[t].data =
                            Container(call[t].args.input,
                                      call[t].args.password)

C5_Witness ==
    \E t \in Threads :
        EncryptSucceeded(t) /\ Len(call[t].args.input) > 0

\* the buffers thread t's call allocated, and the buffers it freed
Allocated(t) ==
    {i \in EventsAt(t, "malloc") : trace[t][i].ptr # NULL}

Freed(t) ==
    {i \in EventsAt(t, "free") : trace[t][i].ptr # NULL}

\* C6: when a call of encrypt, decrypt or hash has returned, on whatever path
\* (parse failure, guard rejection, primitive failure, success), every buffer
\* it allocated has been released exactly once, and it released no buffer
\* twice and none it had not allocated.
C6_BufferReleasedOnce ==
    \A t \in Threads :
        Done(t) =>
            /\ \A i \in Allocated(t) :
                  /\ Cardinality({j \in Freed(t) :
                                    trace[t][j].ptr = trace[t][i].ptr}) = 1
            /\ \A j \in Freed(t) :
                  /\ trace[t][j].ok
                  /\ \E i \in Allocated(t) :
                        i < j /\ trace[t][i].ptr = trace[t][j].ptr
            /\ ~call[t].args.argsOK => EventsAt(t, "malloc") = {}

C6_Witness ==
    \E t \in Threads :
        /\ Done(t) /\ curexc[t].exc = "scrypt.error"
        /\ Allocated(t) # {} /\ Freed(t) # {}

\* the guard of thread t's hash call rejected its parameters
GuardRejected(t) ==
    \E i \in EventsAt(t, "guard") : ~trace[t][i].ok

\* C8 as claimed: in hash the guard runs before any allocation: when it
\* rejects, the call has neither allocated the buffer nor invoked the
\* primitive, and the buffer is allocated only after the guard accepted.
C8_GuardBeforeAllocation ==
    \A t \in Threads :
        call[t].op = "hash" =>
            /\ GuardRejected(t) =>
                  EventsAt(t, "malloc") = {} /\ EventsAt(t, "call") = {}
            /\ \A i \in EventsAt(t, "malloc") :
                  \E g \in EventsAt(t, "guard") : g < i /\ trace[t][g].ok

\* C8 as the code has it: hash asks for its 64-byte buffer before the guard
\* runs; when the guard rejects, the call has not invoked the derivation
\* primitive, returns InvalidParams and has released the buffer; the primitive
\* is invoked only after the guard accepted.
C8_GuardBeforePrimitive ==
    \A t \in Threads :
        call[t].op = "hash" =>
            /\ \A g \in EventsAt(t, "guard") :
                  \E i \in EventsAt(t, "malloc") :
                      i < g /\ trace[t][i].size = 64
            /\ GuardRejected(t) => EventsAt(t, "call") = {}
            /\ (GuardRejected(t) /\ Done(t)) =>
                  /\ retval[t] = NoObject
                  /\ curexc[t] = PyErr_Format("scrypt.error", ParamErrorMessage)
                  /\ \A i \in Allocated(t) :
                        \E j \in Freed(t) :
                            i < j /\ trace[t][j].ptr = trace[t][i].ptr
            /\ \A c \in EventsAt(t, "call") :
                  \E g \in EventsAt(t, "guard") : g < c /\ trace[t][g].ok

C8_Witness ==
    \E t \in Threads :
        /\ call[t].op = "hash" /\ Done(t) /\ GuardRejected(t)
        /\ Allocated(t) # {}

\* C9: in decrypt the length the primitive reports is validated against the
\* capacity len(ciphertext) before bytes are returned: what is returned never
\* extends past the capacity, and a reported length greater than the capacity
\* makes the call fail instead of returning bytes.
C9_UsedLengthValidated ==
    \A t \in Threads :
        (call[t].op = "decrypt" /\ Done(t) /\ Parsed(t)) =>
            /\ retval[t] # NoObject =>
                  Len(retval[t].data) <= Len(call[t].args.input)
            /\ call[t].over > 0 =>
                  retval[t] = NoObject /\ curexc[t] # NoError

\* C10: the primitive is invoked only with an output buffer that was
\* allocated: when the allocation fails the call does not invoke the
\* primitive and ends with an error instead of a returned value.
C10_PrimitiveNeedsBuffer ==
    \A t \in Threads :
        /\ \A i \in EventsAt(t, "call") : trace[t][i].ptr # NULL
        /\ (Parsed(t) /\ ~call[t].memOK) => EventsAt(t, "call") = {}
        /\ (Parsed(t) /\ ~call[t].memOK /\ Done(t)) =>
              retval[t] = NoObject /\ curexc[t] # NoError

---------------------------------------------------------------------------
(* SpecGuard: hash over parameters at and around every limit of the guard  *)

GuardNs ==
    {ToLimbs(0, 8), ToLimbs(1, 8), ToLimbs(2, 8), ToLimbs(3, 8),
     ToLimbs(16, 8), ToLimbs(256, 8), ToLimbs(384, 8), Pow2Limbs(14, 8),
     Pow2Limbs(32, 8), DecLimbs(Pow2Limbs(40, 8)), Pow2Limbs(63, 8),
     MaxLimbs(8)}

GuardRPs ==
    {ToLimbs(0, 4), ToLimbs(1, 4), ToLimbs(8, 4), Pow2Limbs(15, 4),
     DecLimbs(Pow2Limbs(15, 4)), Pow2Limbs(16, 4), Pow2Limbs(20, 4),
     Pow2Limbs(30, 4), MaxLimbs(4)}

GuardArgs ==
    {[NoArgs EXCEPT !.password = <<112>>, !.salt = <<115>>, !.N = <<n>>,
                    !.r = <<r>>, !.p = <<q>>] :
        n \in GuardNs, r \in GuardRPs, q \in GuardRPs}

NextGuard ==
    \/ initscrypt
    \/ scrypt_hash(1, GuardArgs, BOOLEAN)
    \/ scrypt_hash_primitive(1, DerivationCodes)
    \/ scrypt_hash_return(1)

SpecGuard ==
    Init /\ [][NextGuard]_vars

IsPowerOfTwo(N) ==
    \E e \in 0..63 : N = Pow2Limbs(e, 8)

\* the parameters the contract rejects: N <= 1, N no power of two, or the
\* product r*p, taken without any overflow, at least 2^30
InvalidParams(N, r, p) ==
    \/ LimbsLE(N, ToLimbs(1, 8))
    \/ ~IsPowerOfTwo(N)
    \/ LimbsGE(MulLimbs(r, p), Pow2Limbs(30, 8))

\* C1: hash fails with InvalidParams exactly when N <= 1, or N is not a power
\* of two, or the true product r*p is at least 2^30; so N=16, r=2^20, p=2^20
\* is rejected.
C1_GuardRejectsExactly ==
    \A t \in Threads :
        (call[t].op = "hash" /\ Done(t) /\ Parsed(t)) =>
            LET a == call[t].args
            IN  (curexc[t] = PyErr_Format("scrypt.error", ParamErrorMessage))
                    <=> InvalidParams(a.N[1], a.r[1], a.p[1])

---------------------------------------------------------------------------
(* SpecRoundTrip: thread 1 encrypts, thread 2 decrypts what it returned    *)

\* text, the two bytes of a UTF-8 sequence (195 169), a byte that is no UTF-8
RoundTripPlaintexts ==
    SeqsUpTo({65, 195, 169, 255}, MaxLen)

RoundTripArgs ==
    {[NoArgs EXCEPT !.input = x, !.password = k] :
        x \in RoundTripPlaintexts, k \in Passwords}

\* the decrypt call that undoes thread t's successful encrypt
DecryptOf(t) ==
    IF EncryptSucceeded(t)
    THEN {[NoArgs EXCEPT !.input = retval[t].data,
                         !.password = call[t].args.password]}
    ELSE {}

NextRoundTrip ==
    \/ initscrypt
    \/ scrypt_encrypt(1, RoundTripArgs, BOOLEAN)
    \/ scrypt_encrypt_primitive(1, PrimitiveCodes)
    \/ scrypt_encrypt_return(1)
    \/ scrypt_decrypt(2, DecryptOf(1), BOOLEAN)
    \/ scrypt_decrypt_primitive(2, PrimitiveCodes, {0})
    \/ scrypt_decrypt_return(2)

SpecRoundTrip ==
    Init /\ [][NextRoundTrip]_vars

\* C4: decrypt(encrypt(p, k), k) returns the content p (as bytes, or as the
\* text whose UTF-8 encoding is p), for every plaintext (empty, text or not)
\* and password, when the primitive decrypts within its budget (returns 0)
\* and is given its buffer.
C4_RoundTrip ==
    (/\ call[2].op = "decrypt" /\ Done(2)
     /\ call[2].memOK /\ call[2].rc = 0) =>
        /\ Returned(2)
        /\ retval[2].type \in {"bytes", "str"}
        /\ ContentBytes(retval[2]) = call[1].args.input

---------------------------------------------------------------------------
(* SpecThreads: several threads call into the module at once.  A call      *)
(* holds the interpreter lock from its entry to Py_BEGIN_ALLOW_THREADS and *)
(* from Py_END_ALLOW_THREADS to its return, so each of these two parts is  *)
(* one step; the primitive runs without the lock, between steps of others. *)

ThreadEncryptArgs ==
    {[NoArgs EXCEPT !.input = <<255>>, !.password = <<112>>]}

ThreadDecryptArgs ==
    {[NoArgs EXCEPT !.input = Container(<<65>>, <<112>>),
                    !.password = <<112>>]}

ThreadHashArgs ==
    {[NoArgs EXCEPT !.password = <<112>>, !.salt = <<115>>]}

\* success, and one failure: 6, "malloc failed"
ThreadCodes ==
    {0, 6}

NextThreads ==
    \/ initscrypt
    \/ \E t \in Threads :
          \/ scrypt_encrypt(t, ThreadEncryptArgs, BOOLEAN)
          \/ scrypt_encrypt_primitive(t, ThreadCodes)
          \/ scrypt_encrypt_return(t)
          \/ scrypt_decrypt(t, ThreadDecryptArgs, {TRUE})
          \/ scrypt_decrypt_primitive(t, ThreadCodes, {0})
          \/ scrypt_decrypt_return(t)
          \/ scrypt_hash(t, ThreadHashArgs, {TRUE})
          \/ scrypt_hash_primitive(t, DerivationCodes)
          \/ scrypt_hash_return(t)

SpecThreads ==
    Init /\ [][NextThreads]_vars

\* the first, second and third part of a call of one operation
Begin(op, m, a, memOK, b) ==
    IF op = "encrypt" THEN encrypt_begin(m, a, memOK)
    ELSE IF op = "decrypt" THEN decrypt_begin(m, a, memOK)
    ELSE hash_begin(m, a, memOK, b)

Primitive(op, m, rc, over) ==
    IF op = "encrypt" THEN encrypt_primitive(m, rc)
    ELSE IF op = "decrypt" THEN decrypt_primitive(m, rc, over)
    ELSE hash_primitive(m, rc)

Finish(op, m, b, E, garbage) ==
    IF op = "encrypt" THEN encrypt_finish(m, b, E, garbage)
    ELSE IF op = "decrypt" THEN decrypt_finish(m, b, E, garbage)
    ELSE hash_finish(m, b, E, garbage)

\* the outcome of the call c run alone: its three parts one after the other
\* on a heap no other call uses
AloneOutcome(c) ==
    LET m1 == Begin(c.op, IdleMachine, c.args, c.memOK, binding)
        m2 == IF m1.pc = "done" THEN m1
              ELSE Primitive(c.op, m1, c.rc, c.over)
        m3 == IF m2.pc \in {"done", "crashed"} THEN m2
              ELSE Finish(c.op, m2, binding, ScryptError, c.beyond)
    IN  [pc |-> m3.pc, ret |-> m3.ret, exc |-> m3.exc]

\* the blocks thread t's call has allocated and not yet released
Owned(t) ==
    {trace[t][i].ptr : i \in Allocated(t)}
        \ {trace[t][j].ptr : j \in Freed(t)}

\* a step of another thread leaves thread t's automatic variables, its
\* buffer, its error indicator and its result as they were
Untouched(t) ==
    /\ frames'[t] = frames[t]
    /\ \A a \in Owned(t) : heap'[a] = heap[a]
    /\ curexc'[t] = curexc[t]
    /\ retval'[t] = retval[t]
    /\ trace'[t] = trace[t]

\* every step of a call moves its thread's pc: a thread whose pc stays has not
\* taken the step
NoInterference ==
    \A t \in Threads : pc'[t] = pc[t] => Untouched(t)

\* module-level state is written by module initialisation alone
ModuleStateFixed ==
    /\ binding' = binding
    /\ ScryptError # "unset" => ScryptError' = ScryptError

OutcomeAsAlone ==
    \A t \in Threads :
        (Done(t) /\ call[t].op # "none") =>
            AloneOutcome(call[t])
                = [pc |-> "done", ret |-> retval[t], exc |-> curexc[t]]

\* C7: concurrent calls are independent: in every interleaving a step of one
\* call touches only its own variables and buffer, nothing writes module
\* state after the module's initialisation, and a call that returns has the
\* outcome of the same call run alone.
C7_CallsIndependent ==
    /\ []OutcomeAsAlone
    /\ [][NoInterference /\ ModuleStateFixed]_vars

\* a call has returned its result while another call, whose primitive has
\* run, is still to build its own
C7_Witness ==
    \E t, u \in Threads :
        /\ Returned(t)
        /\ pc[u] \in {"enc_finish", "dec_finish", "hash_finish"}
        /\ Owned(u) # {}

====
